---- MODULE Spec2Model ----
(***************************************************************************)
(* Model of package externalip (external-ip.go): the two quorum            *)
(* aggregators DNS() and HTTP(), the three DNS askers and the HTTP asker   *)
(* urlGetReadAll.                                                          *)
(*                                                                         *)
(* Strings are sequences of one-character strings, so that parsing,        *)
(* formatting and trimming are computed and not assumed.  net.IP values    *)
(* are sequences of bytes; the nil IP is the empty sequence.               *)
(***************************************************************************)
EXTENDS Integers, Sequences, FiniteSets, TLC

\* Largest pool size explored (len(queriers), len(urls)).
MaxN == 4

(***************************************************************************)
(* Text and net.IP helpers                                                 *)
(***************************************************************************)

\* The Go zero value of string, also what return without assignment yields.
Empty == <<>>

Digits == <<"0", "1", "2", "3", "4", "5", "6", "7", "8", "9">>

IsDigit(c) == \E d \in 1..10 : Digits[d] = c

DigitVal(c) == (CHOOSE d \in 1..10 : Digits[d] = c) - 1

\* strconv-style decimal rendering of a byte, as net.IP.String does per octet.
Itoa(n) ==
    IF n < 10 THEN <<Digits[n + 1]>>
    ELSE IF n < 100 THEN <<Digits[(n \div 10) + 1], Digits[(n % 10) + 1]>>
    ELSE <<Digits[(n \div 100) + 1], Digits[((n \div 10) % 10) + 1], Digits[(n % 10) + 1]>>

\* The dot-separated fields of s.
RECURSIVE SplitDots(_, _, _)
SplitDots(s, cur, acc) ==
    IF s = <<>> THEN Append(acc, cur)
    ELSE IF Head(s) = "." THEN SplitDots(Tail(s), <<>>, Append(acc, cur))
    ELSE SplitDots(Tail(s), Append(cur, Head(s)), acc)

RECURSIVE DecVal(_, _)
DecVal(f, n) == IF f = <<>> THEN n ELSE DecVal(Tail(f), 10 * n + DigitVal(Head(f)))

\* One decimal octet: 1..3 digits, no leading zero, at most 255; -1 otherwise.
ParseOctet(f) ==
    IF Len(f) = 0 \/ Len(f) > 3 THEN -1
    ELSE IF \E k \in 1..Len(f) : ~IsDigit(f[k]) THEN -1
    ELSE IF Len(f) > 1 /\ f[1] = "0" THEN -1
    ELSE IF DecVal(f, 0) > 255 THEN -1
    ELSE DecVal(f, 0)

\* net.IPv4(a, b, c, d): the 16-byte IPv4-mapped form.
IPv4(a, b, c, d) == <<0, 0, 0, 0, 0, 0, 0, 0, 0, 0, 255, 255, a, b, c, d>>

NilIP == <<>>

\* The IPv6 loopback ::1, the one IPv6 literal the model parses.
IPv6Loopback == <<0, 0, 0, 0, 0, 0, 0, 0, 0, 0, 0, 0, 0, 0, 0, 1>>

ParseIPv4(s) ==
    LET fs == SplitDots(s, <<>>, <<>>)
    IN  IF Len(fs) = 4 /\ \A k \in 1..4 : ParseOctet(fs[k]) >= 0
        THEN IPv4(ParseOctet(fs[1]), ParseOctet(fs[2]), ParseOctet(fs[3]), ParseOctet(fs[4]))
        ELSE NilIP

ParseIPv6(s) == IF s = <<":", ":", "1">> THEN IPv6Loopback ELSE NilIP

\* net.ParseIP: the first '.' or ':' of s decides the syntax; neither gives nil.
RECURSIVE ParseIPFrom(_, _)
ParseIPFrom(s, rest) ==
    IF rest = <<>> THEN NilIP
    ELSE IF Head(rest) = "." THEN ParseIPv4(s)
    ELSE IF Head(rest) = ":" THEN ParseIPv6(s)
    ELSE ParseIPFrom(s, Tail(rest))

ParseIP(s) == ParseIPFrom(s, s)

\* net.IP.To4: the 4-byte form of an IPv4 address, nil for anything else.
To4(ip) ==
    IF Len(ip) = 4 THEN ip
    ELSE IF Len(ip) = 16 /\ (\A k \in 1..10 : ip[k] = 0) /\ ip[11] = 255 /\ ip[12] = 255
         THEN <<ip[13], ip[14], ip[15], ip[16]>>
    ELSE NilIP

NilString == <<"<", "n", "i", "l", ">">>

\* net.IP.String on the result of To4: "<nil>" for the nil IP, dotted decimal
\* for four bytes.
IPString(ip) ==
    IF Len(ip) = 0 THEN NilString
    ELSE Itoa(ip[1]) \o <<".">> \o Itoa(ip[2]) \o <<".">> \o Itoa(ip[3]) \o <<".">> \o Itoa(ip[4])

IsSpace(c) == c \in {" ", "\n", "\t", "\r"}

RECURSIVE TrimLeft(_)
TrimLeft(s) == IF s # <<>> /\ IsSpace(Head(s)) THEN TrimLeft(Tail(s)) ELSE s

RECURSIVE TrimRight(_)
TrimRight(s) ==
    IF s # <<>> /\ IsSpace(s[Len(s)]) THEN TrimRight(SubSeq(s, 1, Len(s) - 1)) ELSE s

\* strings.TrimSpace
TrimSpace(s) == TrimRight(TrimLeft(s))

(***************************************************************************)
(* What the network can hand to an asker                                   *)
(***************************************************************************)

TextA == <<"1", ".", "2", ".", "3", ".", "4">>
TextB == <<"1", "0", ".", "0", ".", "0", ".", "2", "5", "5">>

\* Resource records: Rrtype is the dynamic type behind the dns.RR interface.
TXT(strs) == [Rrtype |-> "TXT", Txt |-> strs, A |-> NilIP]
ARec(ip) == [Rrtype |-> "A", Txt |-> <<>>, A |-> ip]
CNAME == [Rrtype |-> "CNAME", Txt |-> <<>>, A |-> NilIP]

\* Character-string payloads of a TXT record.
TxtPayloads ==
    { TextA, TextB,
      <<":", ":", "1">>,
      <<"1", ".", "2", ".", "3">>,
      <<"2", "5", "6", ".", "1", ".", "1", ".", "1">>,
      <<"x">>,
      <<>> }

RRs ==
    { TXT(<<t>>) : t \in TxtPayloads }
        \cup { TXT(<<>>), CNAME }
        \cup { ARec(ip) : ip \in { <<1, 2, 3, 4>>, IPv4(10, 0, 0, 255), IPv6Loopback } }

\* (in, err) as returned by dns.Exchange; on error the message is not read.
DNSResponses ==
    { [err |-> TRUE, Answer |-> <<>>] }
        \cup { [err |-> FALSE, Answer |-> <<>>] }
        \cup { [err |-> FALSE, Answer |-> <<rr>>] : rr \in RRs }
        \cup { [err |-> FALSE, Answer |-> <<CNAME, ARec(<<1, 2, 3, 4>>)>>] }

\* (resp, err) of http.Get and (bytes, err) of ioutil.ReadAll on its body.
HTTPResponses ==
    { [err |-> TRUE, body |-> <<>>, readErr |-> FALSE] }
        \cup { [err |-> FALSE, body |-> b, readErr |-> e] :
                 b \in { TextA \o <<"\n">>,
                         TextA,
                         <<" ", "\t">> \o TextA \o <<"\r", "\n">>,
                         <<"x", " ", "y", "\n">> },
                 e \in BOOLEAN }

(***************************************************************************)
(* The askers.  An asker either returns a string or panics.                *)
(***************************************************************************)

Return(s) == [panic |-> FALSE, ip |-> s]
Panic == [panic |-> TRUE, ip |-> Empty]

\* Indexing element 0 of a slice: a run-time panic when the slice is empty.
GoogleDNS(in) ==
    IF in.err THEN Return(Empty)
    ELSE IF Len(in.Answer) = 0 THEN Panic
    ELSE LET t == in.Answer[1]
         IN  IF t.Rrtype = "TXT"
             THEN IF Len(t.Txt) = 0 THEN Panic
                  ELSE Return(IPString(To4(ParseIP(t.Txt[1]))))
             ELSE Return(Empty)

OpenDNS(in) ==
    IF in.err THEN Return(Empty)
    ELSE IF Len(in.Answer) = 0 THEN Panic
    ELSE LET a == in.Answer[1]
         IN  IF a.Rrtype = "A" THEN Return(IPString(To4(a.A))) ELSE Return(Empty)

AkamaiDNS(in) ==
    IF in.err THEN Return(Empty)
    ELSE IF Len(in.Answer) = 0 THEN Panic
    ELSE LET a == in.Answer[1]
         IN  IF a.Rrtype = "A" THEN Return(IPString(To4(a.A))) ELSE Return(Empty)

\* Calling the function value held in the queriers slice.
CallQuerier(f, in) ==
    CASE f = "GoogleDNS" -> GoogleDNS(in)
      [] f = "OpenDNS" -> OpenDNS(in)
      [] f = "AkamaiDNS" -> AkamaiDNS(in)

\* Variant: the body is closed after the read-error check, not by a defer, so
\* the return on a read error leaves it open.
urlGetReadAllCloseAfterRead(r) ==
    IF r.err THEN [panic |-> FALSE, ip |-> Empty, opened |-> FALSE, closed |-> FALSE]
    ELSE IF r.readErr THEN [panic |-> FALSE, ip |-> Empty, opened |-> TRUE, closed |-> FALSE]
    ELSE [panic |-> FALSE, ip |-> TrimSpace(r.body), opened |-> TRUE, closed |-> TRUE]

\* urlGetReadAll: the string returned, whether a response body was obtained
\* and whether the deferred Close ran on it before the return.
urlGetReadAll(r) ==
    IF r.err THEN [panic |-> FALSE, ip |-> Empty, opened |-> FALSE, closed |-> FALSE]
    ELSE IF r.readErr THEN [panic |-> FALSE, ip |-> Empty, opened |-> TRUE, closed |-> TRUE]
    ELSE [panic |-> FALSE, ip |-> TrimSpace(r.body), opened |-> TRUE, closed |-> TRUE]

(***************************************************************************)
(* State                                                                   *)
(***************************************************************************)

VARIABLES
    queriers,   \* the package-level slice of DNS asker functions
    urls,       \* the package-level slice of URLs
    fn,         \* the entry point being executed: "none", "DNS" or "HTTP"
    caller,     \* the calling goroutine: "idle", "wait" (at <-result), "returned"
    ret,        \* the value the entry point returned
    apc,        \* per asker goroutine: "run" (in f()), "send" (at ch <- v), "done"
    aval,       \* per asker goroutine: the value f() returned
    failed,     \* per asker goroutine: whether its exchange was a failure (history)
    bodiesOpened,  \* response bodies the askers obtained from http.Get (history)
    bodiesClosed,  \* of those, the ones closed when their asker returned (history)
    cpc,        \* the collector goroutine: "none", "recv", "emit", "close", "exit"
    ips,        \* the collector's map[string]int
    done,       \* the collector's done flag
    ip,         \* the collector's loop variable ip
    iter,       \* completed iterations of the collector's for-range loop
    received,   \* receives on ch completed so far (history)
    counted,    \* per asker goroutine: how often its value was tallied (history)
    emits,      \* completed sends on result (history)
    closed,     \* whether result has been closed
    closes,     \* executions of close(result) so far (history)
    crashed,    \* whether a goroutine panicked, which ends the process
    ch,         \* the channel the call's askers send on (0: none made yet)
    result,     \* the channel the call's collector answers on (0: none made yet)
    chans,      \* channels made so far by make(chan string), over all calls
    other       \* a second call of the package: its locals and goroutines

vars == <<queriers, urls, fn, caller, ret, apc, aval, failed, bodiesOpened,
          bodiesClosed, cpc, ips, done, ip, iter, received, counted, emits, closed,
          closes, crashed, ch, result, chans, other>>

pools == <<queriers, urls>>
callerVars == <<caller, ret>>
askerVars == <<apc, aval, failed, bodiesOpened, bodiesClosed>>
channels == <<ch, result, chans>>
collectorVars == <<cpc, ips, done, ip, iter, received, counted, emits, closed, closes>>

\* The three askers of the source, repeated to fill a pool of n.
QuerierNames == <<"GoogleDNS", "OpenDNS", "AkamaiDNS">>

\* A pool of n URLs; only the number of URLs matters to the aggregator.
UrlPool(n) == [k \in 1..n |-> k]

QuerierPool(n) == [k \in 1..n |-> QuerierNames[((k - 1) % 3) + 1]]

\* map[string]int: a missing key reads as 0.
EmptyMap == <<>>

Get(m, k) == IF k \in DOMAIN m THEN m[k] ELSE 0

\* Variant: ips[ip] = 1 in place of ips[ip]++.
IncrAssignsOne(m, k) == [x \in (DOMAIN m) \cup {k} |-> IF x = k THEN 1 ELSE m[x]]

\* ips[ip]++
Incr(m, k) == [x \in (DOMAIN m) \cup {k} |-> IF x = k THEN Get(m, k) + 1 ELSE m[x]]

\* The locals and goroutines of a call that has not been made.
NotCalled ==
    [fn |-> "none", caller |-> "idle", ret |-> Empty, apc |-> <<>>, aval |-> <<>>,
     failed |-> <<>>, bodiesOpened |-> 0, bodiesClosed |-> 0, cpc |-> "none",
     ips |-> EmptyMap, done |-> FALSE, ip |-> Empty, iter |-> 0, received |-> 0,
     counted |-> <<>>, emits |-> 0, closed |-> FALSE, closes |-> 0, ch |-> 0,
     result |-> 0]

Init ==
    /\ \E n \in 1..MaxN : queriers = QuerierPool(n) /\ urls = UrlPool(n)
    /\ fn = "none"
    /\ caller = "idle"
    /\ ret = Empty
    /\ apc = <<>>
    /\ aval = <<>>
    /\ failed = <<>>
    /\ bodiesOpened = 0
    /\ bodiesClosed = 0
    /\ cpc = "none"
    /\ ips = EmptyMap
    /\ done = FALSE
    /\ ip = Empty
    /\ iter = 0
    /\ received = 0
    /\ counted = <<>>
    /\ emits = 0
    /\ closed = FALSE
    /\ closes = 0
    /\ crashed = FALSE
    /\ ch = 0
    /\ result = 0
    /\ chans = 0
    /\ other = NotCalled

\* Variant: ch and result are package-level channels, made once and used by
\* every call.
MakeChanPackageLevel(made) == (made % 2) + 1

\* make(chan string) when `made` channels exist: a channel distinct from each
\* of them.
MakeChan(made) == made + 1

\* The goroutines and channels one call creates for a pool of n askers.
Start(name, n) ==
    /\ caller = "idle"
    /\ ~crashed
    /\ fn' = name
    /\ apc' = [k \in 1..n |-> "run"]
    /\ aval' = [k \in 1..n |-> Empty]
    /\ failed' = [k \in 1..n |-> FALSE]
    /\ bodiesOpened' = 0
    /\ bodiesClosed' = 0
    /\ counted' = [k \in 1..n |-> 0]
    /\ cpc' = IF n = 0 THEN "close" ELSE "recv"
    /\ ips' = EmptyMap
    /\ done' = FALSE
    /\ ip' = Empty
    /\ iter' = 0
    /\ received' = 0
    /\ emits' = 0
    /\ closed' = FALSE
    /\ closes' = 0
    /\ caller' = "wait"
    /\ ch' = MakeChan(chans)
    /\ result' = MakeChan(chans + 1)
    /\ chans' = chans + 2
    /\ UNCHANGED <<pools, ret, crashed, other>>

\* DNS(): make ch, start one goroutine per querier, make result, start the
\* collector, block on <-result.
DNS == Start("DNS", Len(queriers))

\* HTTP(): the same over urls.
HTTP == Start("HTTP", Len(urls))

(***************************************************************************)
(* Asker goroutines                                                        *)
(***************************************************************************)

\* Whether a DNS exchange is one of the failures an asker has to absorb:
\* transport error, no answer record, first record of a type the asker does
\* not read, or a payload that is no IPv4 address.
DNSFailure(f, in) ==
    \/ in.err
    \/ Len(in.Answer) = 0
    \/ /\ f = "GoogleDNS"
       /\ \/ in.Answer[1].Rrtype # "TXT"
          \/ Len(in.Answer[1].Txt) = 0
          \/ To4(ParseIP(in.Answer[1].Txt[1])) = NilIP
    \/ /\ f # "GoogleDNS"
       /\ \/ in.Answer[1].Rrtype # "A"
          \/ To4(in.Answer[1].A) = NilIP

\* Whether an HTTP exchange failed: request error or body-read error.
HTTPFailure(r) == r.err \/ r.readErr

\* The asker's f() ends: with a value, which the goroutine then offers on ch,
\* or with a panic, which ends the process.
Finish(i, out, fail) ==
    /\ failed' = [failed EXCEPT ![i] = fail]
    /\ IF out.panic
       THEN /\ crashed' = TRUE
            /\ UNCHANGED <<apc, aval>>
       ELSE /\ aval' = [aval EXCEPT ![i] = out.ip]
            /\ apc' = [apc EXCEPT ![i] = "send"]
            /\ UNCHANGED crashed
    /\ UNCHANGED <<pools, channels, other, fn, callerVars, collectorVars>>

\* go func(f func() string) { ch <- f() }(f): the call f().
DNSAsker(i) ==
    /\ fn = "DNS"
    /\ ~crashed
    /\ apc[i] = "run"
    /\ \E in \in DNSResponses :
           Finish(i, CallQuerier(queriers[i], in), DNSFailure(queriers[i], in))
    /\ UNCHANGED <<bodiesOpened, bodiesClosed>>

\* go func(url string) { ch <- urlGetReadAll(url) }(url): the call.
HTTPAsker(i) ==
    /\ fn = "HTTP"
    /\ ~crashed
    /\ apc[i] = "run"
    /\ \E r \in HTTPResponses :
           /\ Finish(i, urlGetReadAll(r), HTTPFailure(r))
           /\ bodiesOpened' = bodiesOpened + (IF urlGetReadAll(r).opened THEN 1 ELSE 0)
           /\ bodiesClosed' = bodiesClosed + (IF urlGetReadAll(r).closed THEN 1 ELSE 0)

(***************************************************************************)
(* The channel ch                                                          *)
(***************************************************************************)

\* The goroutines blocked in a send on channel c.  An asker goroutine sends
\* on the ch its call made, which its closure captured: askers 1..Len(apc)
\* are those of this call, the following ones those of the second call.
SendingOn(c) ==
    { i \in DOMAIN apc : ch = c /\ apc[i] = "send" }
        \cup { Len(apc) + k : k \in { j \in DOMAIN other.apc :
                                         other.ch = c /\ other.apc[j] = "send" } }

\* The string goroutine i offers in its send.
Offered(i) == IF i \in DOMAIN apc THEN aval[i] ELSE other.aval[i - Len(apc)]

\* Goroutine i's send is taken by a receive: the goroutine ends.
SendCompletes(i) ==
    IF i \in DOMAIN apc
    THEN /\ apc' = [apc EXCEPT ![i] = "done"]
         /\ counted' = [counted EXCEPT ![i] = @ + 1]
         /\ other' = other
    ELSE /\ other' = [other EXCEPT !.apc[i - Len(apc)] = "done",
                                   !.counted[i - Len(apc)] = @ + 1]
         /\ UNCHANGED <<apc, counted>>

(***************************************************************************)
(* Collector goroutine                                                     *)
(***************************************************************************)

\* Variant: "at least half" in place of "more than half".
DNSQuorumAtLeastHalf(m, v) == Get(m, v) >= Len(queriers) \div 2

\* ips[ip] > len(queriers)/2
DNSQuorum(m, v) == Get(m, v) > Len(queriers) \div 2

\* Variant: "at least half" in place of "more than half".
HTTPQuorumAtLeastHalf(m, v) == Get(m, v) >= Len(urls) \div 2

\* Variant: half rounded the other way, (len(urls)-1)/2.
HTTPQuorumRounded(m, v) == Get(m, v) > (Len(urls) - 1) \div 2

\* ips[ip] > len(urls)/2
HTTPQuorum(m, v) == Get(m, v) > Len(urls) \div 2

\* Variant: the done flag is not consulted.
ShouldEmitIgnoringDone(d, q) == q

\* !done && <quorum>
ShouldEmit(d, q) == ~d /\ q

\* Variant: the collector ends after the loop without close(result).
AfterLoopNoClose(k, n) == IF k = n THEN "exit" ELSE "recv"

\* Variant: a loop bound one too large, so the collector waits for a result
\* that no asker will send.
AfterLoopOffByOne(k, n) == IF k = n + 1 THEN "close" ELSE "recv"

\* Variant: a loop bound one too small, so the collector closes result
\* without waiting for the last asker.
AfterLoopOneShort(k, n) == IF k >= n - 1 THEN "close" ELSE "recv"

\* Where the collector stands after k iterations of a loop over n elements:
\* at the next receive, or past the loop at close(result).
AfterLoop(k, n) == IF k = n THEN "close" ELSE "recv"

\* Variant: the send on result does not block the loop (as if it were handed
\* to a goroutine of its own), so the collector receives while the winner is
\* still being handed over.
DNSCollectWhileEmitting(i) ==
    /\ fn = "DNS"
    /\ ~crashed
    /\ cpc \in {"recv", "emit"}
    /\ i \in SendingOn(ch)
    /\ SendCompletes(i)
    /\ ip' = Offered(i)
    /\ ips' = Incr(ips, Offered(i))
    /\ received' = received + 1
    /\ IF cpc = "emit" \/ ShouldEmit(done, DNSQuorum(ips', ip'))
       THEN cpc' = "emit" /\ iter' = iter
       ELSE iter' = iter + 1 /\ cpc' = AfterLoop(iter + 1, Len(queriers))
    /\ UNCHANGED <<pools, channels, fn, callerVars, aval, failed, bodiesOpened,
                 bodiesClosed, done, emits, closed, closes, crashed>>

\* ip := <-ch, meeting asker i's send; ips[ip]++; the test of the if.
DNSCollectCode(i) ==
    /\ ~crashed
    /\ cpc = "recv"
    /\ i \in SendingOn(ch)
    /\ SendCompletes(i)
    /\ ip' = Offered(i)
    /\ ips' = Incr(ips, Offered(i))
    /\ received' = received + 1
    /\ IF ShouldEmit(done, DNSQuorum(ips', ip'))
       THEN cpc' = "emit" /\ iter' = iter
       ELSE iter' = iter + 1 /\ cpc' = AfterLoop(iter + 1, Len(queriers))
    /\ UNCHANGED <<pools, channels, fn, callerVars, aval, failed, bodiesOpened,
                 bodiesClosed, done, emits, closed, closes, crashed>>

\* The step above, taken by the collector that DNS() started.
DNSCollect(i) == fn = "DNS" /\ DNSCollectCode(i)

HTTPCollectCode(i) ==
    /\ ~crashed
    /\ cpc = "recv"
    /\ i \in SendingOn(ch)
    /\ SendCompletes(i)
    /\ ip' = Offered(i)
    /\ ips' = Incr(ips, Offered(i))
    /\ received' = received + 1
    /\ IF ShouldEmit(done, HTTPQuorum(ips', ip'))
       THEN cpc' = "emit" /\ iter' = iter
       ELSE iter' = iter + 1 /\ cpc' = AfterLoop(iter + 1, Len(urls))
    /\ UNCHANGED <<pools, channels, fn, callerVars, aval, failed, bodiesOpened,
                 bodiesClosed, done, emits, closed, closes, crashed>>

\* The step above, taken by the collector that HTTP() started.
HTTPCollect(i) == fn = "HTTP" /\ HTTPCollectCode(i)

\* Variant: the collector leaves the loop once the winner is handed over (a
\* break after the send), so later results are never received.
DNSEmitThenBreak ==
    /\ fn = "DNS"
    /\ ~crashed
    /\ cpc = "emit"
    /\ caller = "wait"
    /\ ret' = ip
    /\ caller' = "returned"
    /\ emits' = emits + 1
    /\ done' = TRUE
    /\ iter' = iter + 1
    /\ cpc' = "close"
    /\ UNCHANGED <<pools, channels, other, fn, askerVars, ips, ip, received, counted,
                 closed, closes, crashed>>

\* result <- ip meets the caller's <-result: the entry point returns ip;
\* then done = true and the iteration ends.
DNSEmitCode ==
    /\ ~crashed
    /\ cpc = "emit"
    /\ caller = "wait"
    /\ ret' = ip
    /\ caller' = "returned"
    /\ emits' = emits + 1
    /\ done' = TRUE
    /\ iter' = iter + 1
    /\ cpc' = AfterLoop(iter + 1, Len(queriers))
    /\ UNCHANGED <<pools, channels, other, fn, askerVars, ips, ip, received, counted,
                 closed, closes, crashed>>

\* The step above, taken by the collector that DNS() started.
DNSEmit == fn = "DNS" /\ DNSEmitCode

HTTPEmitCode ==
    /\ ~crashed
    /\ cpc = "emit"
    /\ caller = "wait"
    /\ ret' = ip
    /\ caller' = "returned"
    /\ emits' = emits + 1
    /\ done' = TRUE
    /\ iter' = iter + 1
    /\ cpc' = AfterLoop(iter + 1, Len(urls))
    /\ UNCHANGED <<pools, channels, other, fn, askerVars, ips, ip, received, counted,
                 closed, closes, crashed>>

\* The step above, taken by the collector that HTTP() started.
HTTPEmit == fn = "HTTP" /\ HTTPEmitCode

\* close(result), after the loop.
DNSCloseCode ==
    /\ ~crashed
    /\ cpc = "close"
    /\ closed' = TRUE
    /\ closes' = closes + 1
    /\ cpc' = "exit"
    /\ UNCHANGED <<pools, channels, other, fn, callerVars, askerVars, ips, done, ip, iter, received,
                   counted, emits, crashed>>

\* The step above, taken by the collector that DNS() started.
DNSClose == fn = "DNS" /\ DNSCloseCode

HTTPCloseCode ==
    /\ ~crashed
    /\ cpc = "close"
    /\ closed' = TRUE
    /\ closes' = closes + 1
    /\ cpc' = "exit"
    /\ UNCHANGED <<pools, channels, other, fn, callerVars, askerVars, ips, done, ip, iter, received,
                   counted, emits, crashed>>

\* The step above, taken by the collector that HTTP() started.
HTTPClose == fn = "HTTP" /\ HTTPCloseCode

(***************************************************************************)
(* The caller's receive on a closed result channel                         *)
(***************************************************************************)

\* return <-result when result is closed and nothing was sent: the receive
\* yields the zero value of string.
DNSReturnClosedCode ==
    /\ ~crashed
    /\ caller = "wait"
    /\ closed
    /\ ret' = Empty
    /\ caller' = "returned"
    /\ UNCHANGED <<pools, channels, other, fn, askerVars, collectorVars, crashed>>

\* The step above, taken by the caller of DNS().
DNSReturnClosed == fn = "DNS" /\ DNSReturnClosedCode

HTTPReturnClosedCode ==
    /\ ~crashed
    /\ caller = "wait"
    /\ closed
    /\ ret' = Empty
    /\ caller' = "returned"
    /\ UNCHANGED <<pools, channels, other, fn, askerVars, collectorVars, crashed>>

\* The step above, taken by the caller of HTTP().
HTTPReturnClosed == fn = "HTTP" /\ HTTPReturnClosedCode

(***************************************************************************)
(* Specifications                                                          *)
(***************************************************************************)

Askers == DOMAIN apc

AskerStep == \E i \in Askers : DNSAsker(i) \/ HTTPAsker(i)

CollectStep == \E i \in SendingOn(ch) : DNSCollect(i) \/ HTTPCollect(i)

Next ==
    \/ DNS
    \/ HTTP
    \/ AskerStep
    \/ CollectStep
    \/ DNSEmit
    \/ HTTPEmit
    \/ DNSClose
    \/ HTTPClose
    \/ DNSReturnClosed
    \/ HTTPReturnClosed

\* Any interleaving; an asker may take arbitrarily long or never finish.
Spec == Init /\ [][Next]_vars

\* The Go scheduler runs every runnable goroutine: the call is made, a ready
\* channel operation completes, the collector and the caller make progress.
\* Askers are not required to finish their network exchange.
Scheduling ==
    /\ WF_vars(DNS \/ HTTP)
    /\ WF_vars(CollectStep)
    /\ WF_vars(DNSEmit \/ HTTPEmit)
    /\ WF_vars(DNSClose \/ HTTPClose)
    /\ WF_vars(DNSReturnClosed \/ HTTPReturnClosed)

FairSpec == Spec /\ Scheduling

\* The locals and goroutines of the call in progress.
CallState ==
    [fn |-> fn, caller |-> caller, ret |-> ret, apc |-> apc, aval |-> aval,
     failed |-> failed, bodiesOpened |-> bodiesOpened, bodiesClosed |-> bodiesClosed,
     cpc |-> cpc, ips |-> ips, done |-> done, ip |-> ip, iter |-> iter,
     received |-> received, counted |-> counted, emits |-> emits, closed |-> closed,
     closes |-> closes, ch |-> ch, result |-> result]

\* The scheduler turns to the goroutines of the second call: from here on
\* the steps are those of that call, and the call left is the second one.
Switch ==
    /\ ~crashed
    /\ fn # "none" \/ other.fn # "none"
    /\ other' = CallState
    /\ fn' = other.fn
    /\ caller' = other.caller
    /\ ret' = other.ret
    /\ apc' = other.apc
    /\ aval' = other.aval
    /\ failed' = other.failed
    /\ bodiesOpened' = other.bodiesOpened
    /\ bodiesClosed' = other.bodiesClosed
    /\ cpc' = other.cpc
    /\ ips' = other.ips
    /\ done' = other.done
    /\ ip' = other.ip
    /\ iter' = other.iter
    /\ received' = other.received
    /\ counted' = other.counted
    /\ emits' = other.emits
    /\ closed' = other.closed
    /\ closes' = other.closes
    /\ ch' = other.ch
    /\ result' = other.result
    /\ UNCHANGED <<pools, chans, crashed>>

\* Pools of the two-call runs.
MaxPairN == 2

InitTwoCalls == Init /\ Len(queriers) <= MaxPairN

NextTwoCalls == Next \/ Switch

\* Two calls of the package, made one after the other or while the first is
\* still running, their goroutines interleaved in any way.
TwoCalls == InitTwoCalls /\ [][NextTwoCalls]_vars

(***************************************************************************)
(* Vocabulary of the properties                                            *)
(***************************************************************************)

\* The pool size N of the call in progress.
N == IF fn = "HTTP" THEN Len(urls) ELSE Len(queriers)

\* floor(N/2) + 1
Threshold == (N \div 2) + 1

Returned == caller = "returned"

\* Asker i's f() has returned a value.
Produced(i) == apc[i] \in {"send", "done"}

\* Asker i's send on ch has been received.
Delivered(i) == apc[i] = "done"

AllProduced == fn # "none" /\ \A i \in Askers : Produced(i)

AllDelivered == fn # "none" /\ \A i \in Askers : Delivered(i)

\* The strings held by the askers of the call in progress.
Vals == { aval[i] : i \in Askers }

ProducedCount(v) == Cardinality({ i \in Askers : Produced(i) /\ aval[i] = v })

DeliveredCount(v) == Cardinality({ i \in Askers : Delivered(i) /\ aval[i] = v })

\* Some value was delivered by floor(N/2)+1 askers.
MajorityDelivered == \E v \in Vals : DeliveredCount(v) >= Threshold

RECURSIVE SumOver(_, _)
SumOver(m, ks) ==
    IF ks = {} THEN 0
    ELSE LET k == CHOOSE x \in ks : TRUE IN m[k] + SumOver(m, ks \ {k})

\* The sum of all tally counts.
TallySum == SumOver(ips, DOMAIN ips)

\* The collector is executing result <- ip, or has completed it that often.
Emissions == emits + (IF cpc = "emit" THEN 1 ELSE 0)

(***************************************************************************)
(* Properties                                                              *)
(***************************************************************************)

\* C1 Quorum correctness: whenever the call has returned and some value v was
\* produced by at least floor(N/2)+1 of the N askers, the value returned is v,
\* whatever the order in which the results arrived.
C1_QuorumCorrectness ==
    Returned => \A v \in Vals : ProducedCount(v) >= Threshold => ret = v

\* A call over at least three askers returned the majority value although a
\* different value had been delivered too, and every asker has delivered.
C1_Witness ==
    /\ Returned
    /\ AllDelivered
    /\ N >= 3
    /\ DeliveredCount(ret) = Threshold
    /\ ret # Empty
    /\ ret # NilString

\* C2 Early return: once floor(N/2)+1 askers have delivered the same value v,
\* the call eventually returns v, whatever the remaining askers do.
C2_EarlyReturn ==
    MajorityDelivered ~> (Returned /\ DeliveredCount(ret) >= Threshold)

\* C3 Majority-only acceptance, as claimed: whenever the call has returned x,
\* strictly more than N/2 of the askers delivered x, the empty string included.
C3_MajorityOnly == Returned => 2 * DeliveredCount(ret) > N

\* C3 as amended: a returned value was delivered by strictly more than N/2 of
\* the askers, except that the empty string is also returned, with no emission,
\* after all N results were received and none reached a strict majority.
C3_MajorityOrEmptyAfterAll ==
    Returned =>
        \/ 2 * DeliveredCount(ret) > N
        \/ /\ ret = Empty
           /\ emits = 0
           /\ received = N
           /\ \A v \in Vals : 2 * DeliveredCount(v) <= N

\* The call returned a non-empty value that not all askers agreed on.
C3_Witness ==
    /\ Returned
    /\ ret # Empty
    /\ emits = 1
    /\ DeliveredCount(ret) < received

\* C4 No-majority non-termination, as claimed: when every asker has delivered
\* and no value was delivered by strictly more than N/2 askers, the call has
\* not returned (and never returns).
C4_NoMajorityBlocks ==
    (AllDelivered /\ ~MajorityDelivered) => ~Returned

\* C4 as amended: when every asker has delivered and no value was delivered by
\* strictly more than N/2 askers, the collector never emits, closes the result
\* channel after the loop, and the call returns the empty string.
C4_NoMajorityReturnsEmpty ==
    /\ []((AllDelivered /\ ~MajorityDelivered) => Emissions = 0)
    /\ (AllDelivered /\ ~MajorityDelivered)
           ~> (Returned /\ ret = Empty /\ closed /\ emits = 0)

\* Four askers delivered without a majority (a 2-2 split or more values), and
\* the call has returned.
C4_Witness ==
    /\ N = 4
    /\ AllDelivered
    /\ ~MajorityDelivered
    /\ \E v \in Vals : DeliveredCount(v) = 2
    /\ Returned
    /\ ret = Empty

\* C5 Termination: once every asker has produced its result, the call
\* eventually returns, with or without a majority value.
C5_Termination == AllProduced ~> Returned

\* Every asker produced a result, no value has a majority, the call returned.
C5_Witness ==
    /\ AllProduced
    /\ N >= 3
    /\ \A v \in Vals : ProducedCount(v) < Threshold
    /\ Returned

\* C6 Documented quorum rule: when all askers have delivered and a value v was
\* delivered by at least half of them, the call returns v.
C6_AtLeastHalf ==
    (Returned /\ AllDelivered) =>
        \A v \in Vals : 2 * DeliveredCount(v) >= N => ret = v

\* C7 DNS asker failure collapse: no asker panics, and a DNS asker whose
\* exchange failed (transport error, no answer record, wrong record type,
\* payload that is no IPv4 address) returns the empty string.
C7_FailureCollapse ==
    /\ ~crashed
    /\ \A i \in Askers : (fn = "DNS" /\ failed[i] /\ Produced(i)) => aval[i] = Empty

\* C8 At most one emission: the collector executes the send on result at most
\* once per call.
C8_AtMostOneEmission == Emissions <= 1

\* The collector finished after emitting once, and the winner's count went
\* on growing past the threshold.
C8_Witness ==
    /\ cpc = "exit"
    /\ emits = 1
    /\ Get(ips, ret) > Threshold

C10_ExactlyOnce ==
    /\ TallySum = received
    /\ received <= N
    /\ \A v \in DOMAIN ips : ips[v] = DeliveredCount(v)
    /\ \A i \in Askers : counted[i] = (IF Delivered(i) THEN 1 ELSE 0)
    /\ cpc \in {"close", "exit"} => TallySum = N

\* The collector finished with N results tallied, some of them received after
\* the emission and some of them the same as an earlier one.
C10_Witness ==
    /\ cpc = "exit"
    /\ emits = 1
    /\ TallySum = N
    /\ N >= 3
    /\ Cardinality(DOMAIN ips) >= 2

\* Some tally count is above N/2: a value has crossed the threshold.
Crossed == \E v \in DOMAIN ips : ips[v] > N \div 2

\* C11 Emission ordering: a value that crosses the threshold is handed to the
\* caller before anything else is received: from the crossing on the collector
\* is at result <- ip until the hand-off, and while it is there no receive
\* happens and the tally does not change.
C11_EmissionOrdering ==
    /\ [](Crossed => (cpc = "emit" \/ emits = 1))
    /\ [][cpc = "emit" =>
             /\ received' = received
             /\ ips' = ips
             /\ (cpc' = "emit" \/ (emits' = emits + 1 /\ ret' = ip))]_vars

\* The collector is handing the winner over while another asker's result is
\* ready on ch and is left waiting.
C11_Witness ==
    /\ cpc = "emit"
    /\ \E i \in Askers : apc[i] = "send"
    /\ received < N

\* C12 Late results are discarded, as claimed: once the winner has been
\* emitted the collector receives nothing more and the tally stays as it was
\* at the emission.
C12_LateResultsDiscarded ==
    [][emits >= 1 => (received' = received /\ ips' = ips)]_vars

\* C12 as amended: after the winner has been emitted the collector goes on
\* receiving: every result that arrives later is added to the tally, one at a
\* time, without a second emission and without changing the value returned,
\* and once all askers have produced their results all N are received.
C12_LateResultsTallied ==
    /\ [][(emits >= 1 /\ received' # received) =>
              /\ received' = received + 1
              /\ TallySum' = TallySum + 1
              /\ Get(ips', ip') = Get(ips, ip') + 1
              /\ emits' = emits
              /\ ret' = ret
              /\ cpc' # "emit"]_vars
    /\ (emits >= 1 /\ AllProduced) ~> (received = N)

\* The winner was emitted at the threshold, its count has grown since, and
\* the collector has left its loop.
C12_Witness ==
    /\ emits = 1
    /\ cpc = "close"
    /\ Get(ips, ret) > Threshold
    /\ Returned

\* C13 Hung-asker hazard: as long as some asker has not delivered and no value
\* was delivered by floor(N/2)+1 askers, the call has not returned, so it
\* never returns if that stays so; an asker that has not delivered has
\* contributed nothing to the tally.
C13_HungAskerHazard ==
    /\ (fn # "none" /\ ~AllDelivered /\ ~MajorityDelivered) => ~Returned
    /\ \A i \in Askers : ~Delivered(i) => counted[i] = 0
    /\ TallySum = Cardinality({ i \in Askers : Delivered(i) })

\* Three askers: two delivered different values, the third is still in its
\* exchange; the collector waits for it and the caller waits for the collector.
C13_Witness ==
    /\ N = 3
    /\ Cardinality({ i \in Askers : Delivered(i) }) = 2
    /\ \E i \in Askers : apc[i] = "run"
    /\ ~MajorityDelivered
    /\ cpc = "recv"
    /\ caller = "wait"
    /\ ~closed

\* C14 Isolation: every result an asker has produced is eventually received
\* by the collector and added to the tally as it is, whatever the other
\* askers do and whether or not the winner has been emitted.
C14_Isolation ==
    \A i \in 1..MaxN :
        (i \in Askers /\ apc[i] = "send")
            ~> (i \in Askers /\ apc[i] = "done" /\ counted[i] = 1 /\ Get(ips, aval[i]) >= 1)

\* The value that depends on the assignment of results to askers alone, not
\* on the order of arrival: the value held by a strict majority of the askers,
\* or the empty string when there is none.
ValueOfAssignment ==
    IF \E v \in Vals : 2 * ProducedCount(v) > N
    THEN CHOOSE v \in Vals : 2 * ProducedCount(v) > N
    ELSE Empty

\* C15 Arrival-order independence: once every asker holds its result, the
\* value a returned call has returned is the value of the assignment, so two
\* runs over the same assignment return the same value whatever the order in
\* which the results arrived.
C15_ArrivalOrderIndependence ==
    (Returned /\ AllProduced) => ret = ValueOfAssignment

\* A finished call over at least three askers that held exactly two different
\* values, the returned one in the majority.
C15_Witness ==
    /\ Returned
    /\ AllDelivered
    /\ cpc = "exit"
    /\ N >= 3
    /\ Cardinality(Vals) = 2
    /\ ret # Empty
    /\ 2 * DeliveredCount(ret) > N
    /\ \E v \in Vals : v # ret /\ DeliveredCount(v) >= 1

\* C16 No leaked or deadlocked goroutine when all askers deliver: result is
\* closed at most once, only by a collector that has done its N receives and
\* is past every send; and once every asker has produced its result, every
\* send on ch is received, the collector gets past its single send on result,
\* closes result and ends, and the caller returns.
C16_NoLeak ==
    /\ [](closes <= 1)
    /\ [](closed => (closes = 1 /\ cpc = "exit" /\ received = N /\ iter = N))
    /\ [](cpc = "emit" => (~closed /\ caller = "wait"))
    /\ AllProduced
           ~> (AllDelivered /\ received = N /\ cpc = "exit" /\ closes = 1 /\ Returned)

\* Everything has ended after an emission: all askers delivered, the
\* collector closed result once and exited, the caller returned.
C16_Witness ==
    /\ AllDelivered
    /\ N >= 3
    /\ emits = 1
    /\ cpc = "exit"
    /\ closes = 1
    /\ Returned
    /\ received = N


\* ---------------------------------------------------------------------------
\* C17.  DNS() and HTTP() run the same aggregation state machine: apart from
\* the pool they draw their askers from, every step of the collector and of
\* the caller of one entry point is a step of the other entry point's code.
\* From the same state (the same tally, flag, iteration count and pending
\* results) and the same arriving result, the code of DNS() and the code of
\* HTTP() reach the same next state: the same tally, the same decision to
\* hand over, the same returned value, the same close.
C17_SameStateMachine ==
    [][/\ \A i \in 1..MaxN :
            /\ (i \in Askers /\ DNSCollect(i)) => HTTPCollectCode(i)
            /\ (i \in Askers /\ HTTPCollect(i)) => DNSCollectCode(i)
       /\ DNSEmit => HTTPEmitCode
       /\ HTTPEmit => DNSEmitCode
       /\ DNSClose => HTTPCloseCode
       /\ HTTPClose => DNSCloseCode
       /\ DNSReturnClosed => HTTPReturnClosedCode
       /\ HTTPReturnClosed => DNSReturnClosedCode]_vars

\* A call of DNS() over four askers that handed a winner over and then
\* collected the remaining results, with the tally the code of HTTP() would
\* also accept as a majority.
C17_Witness ==
    /\ fn = "DNS"
    /\ N = 4
    /\ emits = 1
    /\ received = N
    /\ Returned
    /\ ret # Empty
    /\ HTTPQuorum(ips, ret)
    /\ closed


\* ---------------------------------------------------------------------------
\* C18.  HTTP asker resource release.  Every response body an HTTP asker
\* obtained is closed by the time the asker has returned, after a successful
\* read and after a read error alike, and an asker whose request or body read
\* failed returns the empty string.
HTTPReturned == { i \in Askers : fn = "HTTP" /\ Produced(i) }

C18_ResourceRelease ==
    /\ bodiesClosed = bodiesOpened
    /\ bodiesOpened <= Cardinality(HTTPReturned)
    /\ Cardinality({ i \in HTTPReturned : ~failed[i] }) <= bodiesOpened
    /\ \A i \in HTTPReturned : failed[i] => aval[i] = Empty

\* An HTTP call in which one asker read its body, one met a read error on a
\* body it had obtained and one met a request error, all three returned.
C18_Witness ==
    /\ fn = "HTTP"
    /\ Cardinality(HTTPReturned) = 3
    /\ Cardinality({ i \in HTTPReturned : ~failed[i] /\ aval[i] # Empty }) = 1
    /\ bodiesOpened = 2
    /\ bodiesClosed = 2


\* ---------------------------------------------------------------------------
\* C19.  Per-call isolation of state.  Each call starts from an empty tally,
\* an unset done flag and channels no other call holds; with two calls made
\* one after the other or concurrently, a step of one call's goroutines
\* leaves the other call's state as it was, every receive of a collector
\* takes the send of an asker of its own call, each call's tally counts
\* exactly the results its own askers delivered, and a call that returns a
\* value handed over by its collector returns one that a strict majority of
\* its own askers delivered.

\* The askers of call c that delivered the string v.
DeliveredIn(c, v) == { i \in DOMAIN c.apc : c.apc[i] = "done" /\ c.aval[i] = v }

\* The tally of call c counts the results of its own askers, once each.
OwnTally(c) ==
    /\ c.received = Cardinality({ i \in DOMAIN c.apc : c.apc[i] = "done" })
    /\ \A v \in DOMAIN c.ips \cup { c.aval[i] : i \in DOMAIN c.apc } :
           Get(c.ips, v) = Cardinality(DeliveredIn(c, v))

\* The value call c returned is decided by the results of its own askers.
OwnOutcome(c) ==
    c.caller = "returned" =>
        IF c.emits = 0
        THEN c.ret = Empty /\ c.closed /\ c.received = Len(c.apc)
        ELSE 2 * Cardinality(DeliveredIn(c, c.ret)) > Len(c.apc)

C19_PerCallIsolation ==
    /\ [][(DNS \/ HTTP) =>
              /\ ips' = EmptyMap
              /\ done' = FALSE
              /\ received' = 0
              /\ ch' # result'
              /\ {ch', result'} \cap {0, other.ch, other.result} = {}]_vars
    /\ [][other' # other => Switch]_vars
    /\ [][received' # received => (Switch \/ \E i \in Askers : apc[i] = "send"
                                       /\ apc'[i] = "done" /\ ip' = aval[i])]_vars
    /\ [](OwnTally(CallState) /\ OwnTally(other))
    /\ [](OwnOutcome(CallState) /\ OwnOutcome(other))

\* Two calls in progress at once, each with one result tallied and an asker
\* of each blocked in its send while both collectors are ready to receive.
C19_Witness ==
    /\ fn # "none"
    /\ other.fn # "none"
    /\ cpc = "recv"
    /\ other.cpc = "recv"
    /\ received = 1
    /\ other.received = 1
    /\ ips # other.ips
    /\ \E i \in Askers : apc[i] = "send"
    /\ \E j \in DOMAIN other.apc : other.apc[j] = "send"
    /\ ch # other.ch

====
